---- MODULE Spec2Model ----
(***************************************************************************)
(* neurokit2.stats.standardize: Z-scoring of lists, pandas Series, pandas   *)
(* DataFrames and raw numpy arrays, optionally robust (median / MAD) and    *)
(* optionally over a rolling window.                                        *)
(*                                                                          *)
(* Numbers are exact.  A finite value is r / sqrt(s) with r a rational      *)
(* <<n, d>> and s a positive rational <<p, q>> (s = <<1, 1>> for a plain    *)
(* rational); the IEEE specials NaN, +inf and -inf are values of their own, *)
(* and the division follows IEEE: 0/0 = NaN, x/0 = +-inf, NaN propagates.   *)
(***************************************************************************)
EXTENDS Integers, Sequences, FiniteSets, TLC

VARIABLES
    data,     \* the argument data: a list, a Series, a DataFrame or an ndarray
    robust,   \* the argument robust
    window,   \* the argument window: None, or <<w>> for the integer w
    madAxis,  \* how the imported mad reduces a 2-D argument: "column" or "flat"
    pc,       \* "call" before standardize runs, "done" after
    out,      \* the value returned, NoOut while none is
    warned,   \* a NeuroKitWarning was emitted
    raised    \* the exception that left standardize, "none" when it returned

vars == <<data, robust, window, madAxis, pc, out, warned, raised>>

(*------------------------------ bounds -----------------------------------*)
\* longest list / Series / 1-D array drawn, and the largest window
MaxLen == 3
\* numeric elements are 1..MaxVal, or NaN
MaxVal == 4
\* most rows and most columns of a table or a 2-D array
MaxRows == 2
MaxCols == 2

(*------------------------- exact arithmetic ------------------------------*)
Abs(a) == IF a < 0 THEN -a ELSE a

RECURSIVE GCD(_, _)
GCD(a, b) == IF b = 0 THEN a ELSE GCD(b, a % b)

\* the rational n/d in lowest terms with a positive denominator (d # 0)
Rat(n, d) ==
    LET g == GCD(Abs(n), Abs(d))
        sg == IF d < 0 THEN -1 ELSE 1
    IN  <<sg * (n \div g), sg * (d \div g)>>

RAdd(a, b) == Rat(a[1] * b[2] + b[1] * a[2], a[2] * b[2])
RSub(a, b) == Rat(a[1] * b[2] - b[1] * a[2], a[2] * b[2])
RMul(a, b) == Rat(a[1] * b[1], a[2] * b[2])
RDiv(a, b) == Rat(a[1] * b[2], a[2] * b[1])
RLess(a, b) == a[1] * b[2] < b[1] * a[2]
RAbs(a) == <<Abs(a[1]), a[2]>>
ROne == <<1, 1>>
RZero == <<0, 1>>

(*------------------------------ values -----------------------------------*)
NaN == [k |-> "nan", r |-> RZero, s |-> ROne]
Inf(sg) == [k |-> "inf", r |-> <<sg, 1>>, s |-> ROne]
Str(n) == [k |-> "str", r |-> <<n, 1>>, s |-> ROne]
\* r / sqrt(s); zero is kept in one form
Fin(r, s) == IF r[1] = 0 THEN [k |-> "num", r |-> RZero, s |-> ROne]
             ELSE [k |-> "num", r |-> r, s |-> s]
Num(i) == Fin(<<i, 1>>, ROne)

IsNaN(v) == v.k = "nan"
IsNum(v) == v.k = "num"
IsZero(v) == v.k = "num" /\ v.r[1] = 0

\* IEEE x - y of plain rationals (numpy / pandas elementwise subtraction)
Sub(x, y) ==
    IF x.k = "num" /\ y.k = "num" THEN Fin(RSub(x.r, y.r), ROne) ELSE NaN

\* IEEE x / y for a plain rational x and a scale y >= 0 (a standard
\* deviation sqrt(v) is held as 1 / sqrt(1/v), a MAD as a plain rational)
Div(x, y) ==
    IF x.k # "num" \/ y.k # "num" THEN NaN
    ELSE IF y.r[1] = 0
         THEN (IF x.r[1] = 0 THEN NaN
               ELSE IF x.r[1] > 0 THEN Inf(1) ELSE Inf(-1))
         ELSE Fin(RDiv(x.r, y.r), <<y.s[2], y.s[1]>>)

\* sqrt(v) of a rational v >= 0
Sqrt(v) == IF v[1] = 0 THEN Num(0) ELSE [k |-> "num", r |-> ROne, s |-> <<v[2], v[1]>>]

(*--------------------------- column helpers ------------------------------*)
RECURSIVE SumR(_)
SumR(rs) == IF rs = <<>> THEN RZero ELSE RAdd(Head(rs), SumR(Tail(rs)))

\* the plain rationals of the non-missing elements of a column, in order
RECURSIVE Valid(_)
Valid(col) ==
    IF col = <<>> THEN <<>>
    ELSE IF Head(col).k = "num" THEN <<Head(col).r>> \o Valid(Tail(col))
         ELSE Valid(Tail(col))

RECURSIVE Insert(_, _)
Insert(x, sorted) ==
    IF sorted = <<>> THEN <<x>>
    ELSE IF RLess(Head(sorted), x) THEN <<Head(sorted)>> \o Insert(x, Tail(sorted))
         ELSE <<x>> \o sorted

RECURSIVE Sorted(_)
Sorted(rs) == IF rs = <<>> THEN <<>> ELSE Insert(Head(rs), Sorted(Tail(rs)))

\* median of a non-empty sequence of rationals
MedianR(rs) ==
    LET s == Sorted(rs)
        n == Len(s)
    IN  IF n % 2 = 1 THEN s[(n + 1) \div 2]
        ELSE RDiv(RAdd(s[n \div 2], s[n \div 2 + 1]), <<2, 1>>)

\* np.mean in place of np.nanmean: one missing element makes the mean NaN
nanmean_strict(col) ==
    IF \E i \in 1..Len(col) : IsNaN(col[i]) THEN NaN
    ELSE Fin(RDiv(SumR(Valid(col)), <<Len(col), 1>>), ROne)

\* np.nanmean(col): the mean of the non-missing elements, NaN when none
nanmean(col) ==
    LET v == Valid(col)
    IN  IF v = <<>> THEN NaN ELSE Fin(RDiv(SumR(v), <<Len(v), 1>>), ROne)

\* sum of squared deviations from the mean
SumSqDev(v) ==
    LET m == RDiv(SumR(v), <<Len(v), 1>>)
    IN  SumR([i \in 1..Len(v) |-> RMul(RSub(v[i], m), RSub(v[i], m))])

\* ddof=0 in place of ddof=1: the population standard deviation
nanstd_ddof0(col) ==
    LET v == Valid(col)
    IN  IF v = <<>> THEN NaN ELSE Sqrt(RDiv(SumSqDev(v), <<Len(v), 1>>))

\* np.nanstd(col, ddof=1): NaN when fewer than two non-missing elements
nanstd(col) ==
    LET v == Valid(col)
    IN  IF Len(v) < 2 THEN NaN
        ELSE Sqrt(RDiv(SumSqDev(v), <<Len(v) - 1, 1>>))

\* centring on the mean in place of the median
nanmedian_as_mean(col) ==
    LET v == Valid(col)
    IN  IF v = <<>> THEN NaN ELSE Fin(RDiv(SumR(v), <<Len(v), 1>>), ROne)

\* np.nanmedian(col)
nanmedian(col) ==
    LET v == Valid(col)
    IN  IF v = <<>> THEN NaN ELSE Fin(MedianR(v), ROne)

\* mad(x): the median of the absolute deviations from the median, over the
\* non-missing elements
mad(col) ==
    LET v == Valid(col)
    IN  IF v = <<>> THEN NaN
        ELSE LET m == MedianR(v)
             IN  Fin(MedianR([i \in 1..Len(v) |-> RAbs(RSub(v[i], m))]), ROne)

(*------------------------------ rolling ---------------------------------*)
\* the trailing window of up to w observations ending at position i
Window(col, i, w) == SubSeq(col, IF i - w + 1 < 1 THEN 1 ELSE i - w + 1, i)

\* df.rolling(window, min_periods=0).mean(): missing observations are
\* skipped, a window without any observation gives NaN
rolling_mean(col, w) == [i \in 1..Len(col) |-> nanmean(Window(col, i, w))]

\* the rolling deviation with ddof=0 in place of ddof=1
rolling_std_ddof0(col, w) ==
    [i \in 1..Len(col) |->
        LET v == Valid(Window(col, i, w))
        IN  IF v = <<>> THEN NaN ELSE Sqrt(RDiv(SumSqDev(v), <<Len(v), 1>>))]

\* df.rolling(window, min_periods=0).std(ddof=1): NaN below two observations
rolling_std(col, w) == [i \in 1..Len(col) |-> nanstd(Window(col, i, w))]

\* df.rolling(window, min_periods=0).median()
rolling_median(col, w) == [i \in 1..Len(col) |-> nanmedian(Window(col, i, w))]

\* df.rolling(window, min_periods=0).apply(mad)
rolling_apply_mad(col, w) == [i \in 1..Len(col) |-> mad(Window(col, i, w))]

\* the fill left out
bfill_skipped(col) == col

\* z.fillna(method="bfill") on one column: a missing value takes the next
\* non-missing value below it, and stays missing when there is none
RECURSIVE bfill(_)
bfill(col) ==
    IF col = <<>> THEN <<>>
    ELSE LET rest == bfill(Tail(col))
         IN  IF IsNaN(Head(col)) /\ rest # <<>>
             THEN <<Head(rest)>> \o rest
             ELSE <<Head(col)>> \o rest

(*----------------------------- containers --------------------------------*)
\* A container is [kind, ndim, cols]; a column is [label, dtype, vals].
\*   kind "list"       one column, the elements are numbers, NaN or strings
\*   kind "Series"     one column, label = its name ("None" when unnamed)
\*   kind "DataFrame"  any number of labelled columns
\*   kind "ndarray"    ndim 1 (one column) or 2, dtype float64, <U1 or <Un
None == <<>>
NoOut == [kind |-> "none", ndim |-> 0, cols |-> <<>>]
Col(label, dtype, vals) == [label |-> label, dtype |-> dtype, vals |-> vals]
Digits == <<"0", "1", "2", "3", "4">>
Names == <<"A", "B", "C", "D", "E">>

RECURSIVE Flatten(_)
Flatten(cols) == IF cols = <<>> THEN <<>> ELSE Head(cols).vals \o Flatten(Tail(cols))

RECURSIVE SelectCols(_, _)
SelectCols(cols, keep) ==
    IF cols = <<>> THEN <<>>
    ELSE (IF Head(keep) THEN <<Head(cols)>> ELSE <<>>)
         \o SelectCols(Tail(cols), Tail(keep))

\* is_string(x), one boolean per list element / table column, a single one
\* for a Series or an ndarray
is_string(x) ==
    CASE x.kind = "list" ->
           [i \in 1..Len(x.cols[1].vals) |-> x.cols[1].vals[i].k = "str"]
      [] x.kind = "DataFrame" ->
           [j \in 1..Len(x.cols) |-> x.cols[j].dtype = "object"]
      [] x.kind = "Series" -> <<x.cols[1].dtype = "object">>
      [] x.kind = "ndarray" -> <<x.cols[1].dtype = "U1">>

any(bs) == \E i \in 1..Len(bs) : bs[i]
not(bs) == [i \in 1..Len(bs) |-> ~bs[i]]

\* np.array(list) of a list without strings
np_array(x) == [kind |-> "ndarray", ndim |-> 1,
                cols |-> <<Col("0", "float", x.cols[1].vals)>>]

\* the scale mad(data) of column j: mad is called on the whole container
\* with no axis; it reduces per column or over all the elements at once
mad_of(cols, j, axis) ==
    IF axis = "column" THEN mad(cols[j].vals) ELSE mad(Flatten(cols))

\* (data - np.nanmean(data, axis=0)) / np.nanstd(data, axis=0, ddof=1)
zscore(vals) ==
    [i \in 1..Len(vals) |-> Div(Sub(vals[i], nanmean(vals)), nanstd(vals))]

\* (data - np.nanmedian(data, axis=0)) / mad(data)
zrobust(cols, j, axis) ==
    [i \in 1..Len(cols[j].vals) |->
        Div(Sub(cols[j].vals[i], nanmedian(cols[j].vals)), mad_of(cols, j, axis))]

\* (df - rolling mean) / rolling std, column by column
zrolling(vals, w) ==
    [i \in 1..Len(vals) |->
        Div(Sub(vals[i], rolling_mean(vals, w)[i]), rolling_std(vals, w)[i])]

\* (df - rolling median) / rolling mad
zrolling_robust(vals, w) ==
    [i \in 1..Len(vals) |->
        Div(Sub(vals[i], rolling_median(vals, w)[i]), rolling_apply_mad(vals, w)[i])]

\* pd.DataFrame(data): an ndarray gets the column labels 0, 1, ...; a Series
\* becomes one column labelled by its name, 0 when it has none
to_frame(x) ==
    [kind |-> "DataFrame", ndim |-> 2,
     cols |-> [j \in 1..Len(x.cols) |->
                 Col(IF x.kind = "ndarray" THEN Digits[j]
                     ELSE IF x.kind = "Series" /\ x.cols[j].label = "None" THEN "0"
                     ELSE x.cols[j].label,
                     x.cols[j].dtype, x.cols[j].vals)]]

HasText(x) == \E j \in 1..Len(x.cols) : x.cols[j].dtype # "float"

\* _standardize(data, robust, window): [exc, z]
_standardize(x, rb, w, axis) ==
    IF w = None
    THEN IF HasText(x)
         THEN [exc |-> "TypeError", z |-> NoOut]
         ELSE [exc |-> "none",
               z |-> [x EXCEPT !.cols =
                        [j \in 1..Len(x.cols) |->
                           [x.cols[j] EXCEPT !.vals =
                              IF rb THEN zrobust(x.cols, j, axis)
                              ELSE zscore(x.cols[j].vals)]]]]
    ELSE LET df == to_frame(x)
             z == [j \in 1..Len(df.cols) |->
                     [df.cols[j] EXCEPT !.vals =
                        bfill(IF rb THEN zrolling_robust(df.cols[j].vals, w[1])
                              ELSE zrolling(df.cols[j].vals, w[1]))]]
         IN  IF HasText(x)
             THEN [exc |-> "DataError", z |-> NoOut]
             ELSE IF Len(z) = 1
                  THEN \* z[0].values: the column labelled 0
                       IF z[1].label = "0"
                       THEN [exc |-> "none",
                             z |-> [kind |-> "ndarray", ndim |-> 1,
                                    cols |-> <<Col("0", "float", z[1].vals)>>]]
                       ELSE [exc |-> "KeyError", z |-> NoOut]
                  ELSE [exc |-> "none",
                        z |-> [kind |-> "ndarray", ndim |-> 2,
                               cols |-> [j \in 1..Len(z) |->
                                           Col(Digits[j], "float", z[j].vals)]]]

(*------------------------------- inputs ----------------------------------*)
NumVals == {Num(i) : i \in 1..MaxVal} \cup {NaN}
Elems == NumVals \cup {Str(1)}
SeqsUpTo(S, n) == UNION {[1..m -> S] : m \in 1..n}

\* the docstring's example list
DocExample == <<Num(3), Num(1), Num(2), Num(4), Num(6), NaN>>

Lists == {[kind |-> "list", ndim |-> 1, cols |-> <<Col("0", "list", v)>>] :
            v \in SeqsUpTo(Elems, MaxLen) \cup {DocExample}}

Text(n) == [i \in 1..n |-> Str(i)]

SeriesSet ==
    {[kind |-> "Series", ndim |-> 1, cols |-> <<Col(nm, "float", v)>>] :
        nm \in {"None", "A"}, v \in SeqsUpTo(NumVals, MaxRows)}
    \cup {[kind |-> "Series", ndim |-> 1, cols |-> <<Col(nm, "object", Text(n))>>] :
        nm \in {"None", "A"}, n \in 1..MaxRows}

\* the columns a table of n rows may have, before labelling
TableCols(n) == {Col("", "float", v) : v \in [1..n -> NumVals]}
                \cup {Col("", "object", Text(n))}

Labelled(cols, labels) == [j \in 1..Len(cols) |-> [cols[j] EXCEPT !.label = labels[j]]]

\* tables with at least one numeric column, labelled A, B, ... or 0, 1, ...
Tables ==
    {[kind |-> "DataFrame", ndim |-> 2, cols |-> Labelled(cs, labels)] :
        cs \in {c \in UNION {[1..m -> TableCols(n)] : m \in 1..MaxCols, n \in 1..MaxRows} :
                  \E j \in 1..Len(c) : c[j].dtype = "float"},
        labels \in {Digits, Names}}

Arrays ==
    {[kind |-> "ndarray", ndim |-> 1, cols |-> <<Col("0", dt, Text(n))>>] :
        dt \in {"U1", "Un"}, n \in 1..MaxRows}
    \cup {[kind |-> "ndarray", ndim |-> 1, cols |-> <<Col("0", "float", v)>>] :
        v \in SeqsUpTo(NumVals, MaxRows)}
    \cup {[kind |-> "ndarray", ndim |-> 2, cols |-> Labelled(cs, Digits)] :
        cs \in UNION {[1..m -> {Col("", "float", v) : v \in [1..n -> NumVals]}] :
                        m \in 1..MaxCols, n \in 1..MaxRows}}

Windows == {None} \cup {<<w>> : w \in 1..MaxLen}

(*------------------------------ behaviour --------------------------------*)
InitWith(inputs) ==
    /\ data \in inputs
    /\ robust \in BOOLEAN
    /\ window \in Windows
    /\ madAxis \in {"column", "flat"}
    /\ pc = "call"
    /\ out = NoOut
    /\ warned = FALSE
    /\ raised = "none"

Init == InitWith(Lists \cup SeriesSet \cup Tables \cup Arrays)

Return(r, o) ==
    /\ raised' = r.exc
    /\ out' = IF r.exc = "none" THEN o ELSE NoOut
    /\ warned' = FALSE

Unchanged ==
    /\ out' = data
    /\ warned' = TRUE
    /\ raised' = "none"

\* isinstance(data, list)
StandardizeList ==
    /\ pc = "call" /\ data.kind = "list"
    /\ IF any(is_string(data))
       THEN Unchanged
       ELSE LET r == _standardize(np_array(data), robust, window, madAxis)
            IN  Return(r, [kind |-> "list", ndim |-> 1,
                           cols |-> <<Col("0", "list", r.z.cols[1].vals)>>])
    /\ pc' = "done"
    /\ UNCHANGED <<data, robust, window, madAxis>>

\* isinstance(data, pd.DataFrame)
StandardizeDataFrame ==
    /\ pc = "call" /\ data.kind = "DataFrame"
    /\ LET _data == [data EXCEPT !.cols = SelectCols(data.cols, not(is_string(data)))]
           to_append == SelectCols(data.cols, is_string(data))
           r == _standardize(_data, robust, window, madAxis)
       IN  Return(r, [kind |-> "DataFrame", ndim |-> 2,
                      cols |-> to_append \o r.z.cols])
    /\ pc' = "done"
    /\ UNCHANGED <<data, robust, window, madAxis>>

\* isinstance(data, pd.Series)
StandardizeSeries ==
    /\ pc = "call" /\ data.kind = "Series"
    /\ IF is_string(data)[1]
       THEN Unchanged
       ELSE LET r == _standardize(data, robust, window, madAxis)
            IN  Return(r, [kind |-> "Series", ndim |-> 1,
                           cols |-> <<Col(IF r.z.kind = "Series" THEN r.z.cols[1].label
                                          ELSE "None",
                                          "float", r.z.cols[1].vals)>>])
    /\ pc' = "done"
    /\ UNCHANGED <<data, robust, window, madAxis>>

\* anything else: a raw array
StandardizeOther ==
    /\ pc = "call" /\ data.kind = "ndarray"
    /\ IF is_string(data)[1]
       THEN Unchanged
       ELSE LET r == _standardize(data, robust, window, madAxis)
            IN  Return(r, r.z)
    /\ pc' = "done"
    /\ UNCHANGED <<data, robust, window, madAxis>>

Next == \/ StandardizeList
        \/ StandardizeDataFrame
        \/ StandardizeSeries
        \/ StandardizeOther

Spec == Init /\ [][Next]_vars

\* the calls on a plain list
InitList == InitWith(Lists)
NextList == StandardizeList
SpecList == InitList /\ [][NextList]_vars
(*------------------------------ observers --------------------------------*)
Done == pc = "done"
\* the single column of a list, before and after
X == data.cols[1].vals
Z == out.cols[1].vals
NumericList == data.kind = "list" /\ \A i \in 1..Len(X) : X[i].k \in {"num", "nan"}
NoMissing(col) == \A i \in 1..Len(col) : ~IsNaN(col[i])
TwoDistinct(col) ==
    \E i, j \in 1..Len(col) : IsNum(col[i]) /\ IsNum(col[j]) /\ col[i] # col[j]
Sign(v) == IF v.r[1] > 0 THEN 1 ELSE IF v.r[1] < 0 THEN -1 ELSE 0

\* the output's own statistics; the finite values of one whole-data column
\* share their scale sqrt(s)
Rs(col) == [i \in 1..Len(col) |-> col[i].r]
AllNum(col) == \A i \in 1..Len(col) : IsNum(col[i])
Scale(col) ==
    IF \E i \in 1..Len(col) : col[i].r[1] # 0
    THEN col[CHOOSE i \in 1..Len(col) : col[i].r[1] # 0].s
    ELSE ROne
SameScale(col) == \A i \in 1..Len(col) : col[i].r[1] # 0 => col[i].s = Scale(col)
OutMeanIsZero(col) == AllNum(col) /\ SameScale(col) /\ SumR(Rs(col)) = RZero
OutSdIsOne(col) ==
    /\ AllNum(col) /\ SameScale(col) /\ Len(col) >= 2
    /\ RDiv(SumSqDev(Rs(col)), <<Len(col) - 1, 1>>) = Scale(col)

\* the median of the non-missing output values is 0: either the middle
\* values are 0, or the two middle values are finite and opposite
Present(col) == {i \in 1..Len(col) : ~IsNaN(col[i])}
Neg(col) == {i \in Present(col) : Sign(col[i]) < 0}
Pos(col) == {i \in Present(col) : Sign(col[i]) > 0}
OutMedianIsZero(col) ==
    LET n == Cardinality(Present(col))
        ng == Cardinality(Neg(col))
        ps == Cardinality(Pos(col))
    IN  /\ n > 0
        /\ \/ 2 * ng < n /\ 2 * ps < n
           \/ /\ 2 * ng = n /\ 2 * ps = n
              /\ \E a \in Neg(col), b \in Pos(col) :
                    /\ IsNum(col[a]) /\ IsNum(col[b])
                    /\ col[a].s = col[b].s /\ RAdd(col[a].r, col[b].r) = RZero
                    /\ \A c \in Neg(col) : IsNum(col[c]) => ~RLess(col[a].r, col[c].r)
                    /\ \A c \in Pos(col) : IsNum(col[c]) => ~RLess(col[c].r, col[b].r)

\* (x - m) / s from the integers of the non-missing input values: with n
\* values of sum S and Q = sum of (n*v - S)^2, the square of (x - m) / s is
\* (n*x - S)^2 * (n - 1) / Q and its sign that of n*x - S
RECURSIVE SumI(_)
SumI(rs) == IF rs = <<>> THEN 0 ELSE Head(rs)[1] + SumI(Tail(rs))
RefN(col) == Len(Valid(col))
RefS(col) == SumI(Valid(col))
RefQ(col) ==
    LET v == Valid(col)
        d == [i \in 1..Len(v) |-> <<(Len(v) * v[i][1] - RefS(col)) * (Len(v) * v[i][1] - RefS(col)), 1>>]
    IN  SumI(d)
MatchesRef(z, x, col) ==
    LET dev == RefN(col) * x.r[1] - RefS(col)
    IN  IF RefN(col) < 2 \/ RefQ(col) = 0 THEN IsNaN(z)
        ELSE /\ IsNum(z)
             /\ Sign(z) = (IF dev > 0 THEN 1 ELSE IF dev < 0 THEN -1 ELSE 0)
             /\ RDiv(RMul(z.r, z.r), z.s) = Rat(dev * dev * (RefN(col) - 1), RefQ(col))

HasStrings(x) ==
    \/ x.kind = "list" /\ \E i \in 1..Len(x.cols[1].vals) : x.cols[1].vals[i].k = "str"
    \/ x.kind # "list" /\ \E j \in 1..Len(x.cols) : x.cols[j].dtype # "float"

(*-------------------------------- claims ---------------------------------*)
\* C1: a list, a Series or a table comes back as a container of the same
\* type with the same number of columns and of rows, in every mode.
C1_ShapePreserved ==
    Done /\ data.kind \in {"list", "Series", "DataFrame"} =>
        /\ out.kind = data.kind
        /\ Len(out.cols) = Len(data.cols)
        /\ \A j \in 1..Len(out.cols) :
              Len(out.cols[j].vals) = Len(data.cols[1].vals)

\* C2: string data is never transformed: a list with a string element and an
\* object Series come back equal to the input, and every string column of a
\* mixed table is a column of the output, windowed or not.
C2_StringsUntouched ==
    Done =>
        /\ data.kind \in {"list", "Series"} /\ HasStrings(data) => out = data
        /\ data.kind = "DataFrame" /\ HasStrings(data) =>
              \A j \in 1..Len(data.cols) :
                 data.cols[j].dtype = "object" =>
                    \E h \in 1..Len(out.cols) : out.cols[h] = data.cols[j]

\* C3: standardize never raises on a list, a Series, a table or a raw array,
\* whatever robust and window are.
C3_NeverRaises == raised = "none"

\* C4 (as claimed): windowed standardization of a numeric list leaves the
\* first position non-missing, and [3,1,2,4,6,NaN] with window 3 has no
\* missing position at all.
C4_NoLeadingMissing ==
    Done /\ NumericList /\ window # None =>
        /\ ~IsNaN(Z[1])
        /\ X = DocExample /\ window = <<3>> => NoMissing(Z)

\* C4 (amended): in the windowed output a missing value is never followed by
\* a non-missing one (what is missing is missing to the end), and for
\* [3,1,2,4,6,NaN] with window 3 exactly the last position is missing.
C4_MissingOnlyAtEnd ==
    Done /\ NumericList /\ window # None =>
        /\ \A i, j \in 1..Len(Z) : i < j /\ IsNaN(Z[i]) => IsNaN(Z[j])
        /\ X = DocExample /\ window = <<3>> =>
              \A i \in 1..Len(Z) : IsNaN(Z[i]) <=> i = Len(Z)

C4_Witness ==
    /\ Done /\ NumericList /\ window = <<2>> /\ ~robust
    /\ Len(X) = 3 /\ NoMissing(X) /\ X[1] # X[2] /\ ~IsNaN(Z[1]) /\ Z[1] = Z[2]

\* C5 (as claimed): every numeric list without missing values has, after
\* non-robust whole-data standardization, mean 0 and sample SD 1.
C5_MeanZeroSdOne ==
    Done /\ NumericList /\ NoMissing(X) /\ ~robust /\ window = None =>
        OutMeanIsZero(Z) /\ OutSdIsOne(Z)

\* C5 (amended): the same for the lists that hold at least two different
\* values.
C5_MeanZeroSdOneNonConstant ==
    Done /\ NumericList /\ NoMissing(X) /\ TwoDistinct(X) /\ ~robust /\ window = None =>
        OutMeanIsZero(Z) /\ OutSdIsOne(Z)

C5_Witness ==
    /\ Done /\ NumericList /\ NoMissing(X) /\ TwoDistinct(X) /\ ~robust /\ window = None
    /\ Len(X) = 3 /\ \E i \in 1..3 : Z[i].s # ROne

\* C6 (as claimed): every numeric list has, after robust whole-data
\* standardization, an output whose median (missing values ignored) is 0.
C6_MedianZero ==
    Done /\ NumericList /\ robust /\ window = None => OutMedianIsZero(Z)

\* C6 (amended): the same for the lists whose MAD is a non-zero number.
C6_MedianZeroNonZeroMad ==
    Done /\ NumericList /\ robust /\ window = None
         /\ IsNum(mad(X)) /\ ~IsZero(mad(X)) => OutMedianIsZero(Z)

C6_Witness ==
    /\ Done /\ NumericList /\ robust /\ window = None
    /\ IsNum(mad(X)) /\ ~IsZero(mad(X)) /\ Len(X) = 3 /\ ~NoMissing(X)

\* C7: non-robust rolling standardization with window = len(x) ends in the
\* value non-robust whole-data standardization ends in (the same number, or
\* missing in both).
C7_LastValueAgrees ==
    Done /\ NumericList /\ ~robust /\ window = <<Len(X)>> =>
        Z[Len(X)] = zscore(X)[Len(X)]

C7_Witness ==
    /\ Done /\ NumericList /\ ~robust /\ window = <<Len(X)>>
    /\ Len(X) = 3 /\ IsNum(Z[3]) /\ ~IsZero(Z[3])

\* C8 (as claimed): non-robust whole-data standardization of a numeric list
\* with missing values is missing exactly where the input is, and is
\* (x - m) / s elsewhere, m and s taken over the non-missing values.
C8_MissingExactlyWhereInput ==
    Done /\ NumericList /\ ~NoMissing(X) /\ ~robust /\ window = None =>
        \A i \in 1..Len(X) :
           /\ IsNaN(Z[i]) <=> IsNaN(X[i])
           /\ ~IsNaN(X[i]) => MatchesRef(Z[i], X[i], X)

\* C8 (amended): the output is missing wherever the input is, is (x - m) / s
\* elsewhere (missing when s is 0 or undefined), and is missing exactly where
\* the input is when the non-missing values hold two different values.
C8_MissingWhereInput ==
    Done /\ NumericList /\ ~NoMissing(X) /\ ~robust /\ window = None =>
        \A i \in 1..Len(X) :
           /\ IsNaN(X[i]) => IsNaN(Z[i])
           /\ ~IsNaN(X[i]) => MatchesRef(Z[i], X[i], X)
           /\ TwoDistinct(X) => (IsNaN(Z[i]) <=> IsNaN(X[i]))

C8_Witness ==
    /\ Done /\ NumericList /\ ~NoMissing(X) /\ ~robust /\ window = None
    /\ TwoDistinct(X) /\ \E i \in 1..Len(X) : IsNum(Z[i]) /\ Z[i].s # ROne

\* C9: whenever string data is left unstandardized (a list with a string, an
\* object Series, a string array, a table with a string column), a warning
\* is emitted.
C9_WarnsOnStrings == Done /\ raised = "none" /\ HasStrings(data) => warned

\* C10: whole-data standardization treats the columns of a numeric table or
\* 2-D array independently, robust or not: an input that agrees on column j
\* gives the same column j.
C10_ColumnsIndependent ==
    Done /\ window = None /\ ~HasStrings(data) /\ data.kind \in {"DataFrame", "ndarray"} =>
        \A other \in Tables \cup Arrays :
            /\ other.kind = data.kind /\ ~HasStrings(other)
            /\ Len(other.cols) = Len(data.cols)
            /\ Len(other.cols[1].vals) = Len(data.cols[1].vals)
            => \A j \in 1..Len(data.cols) :
                  other.cols[j] = data.cols[j] =>
                     _standardize(other, robust, None, madAxis).z.cols[j] = out.cols[j]
====
